---------------------------- MODULE Spec2Model ----------------------------
(***************************************************************************)
(* Concert ticket reservation: the booking service (BookTickets,           *)
(* CancelBooking) over the PostgreSQL repositories.                        *)
(*                                                                         *)
(* The database is modelled by its committed state: `concerts' and         *)
(* `bookings' hold what a statement of another connection can read.  A     *)
(* statement run on the pool (r.db) commits on its own; the statements of  *)
(* CreateWithTicketUpdate run in one transaction, whose writes are kept in *)
(* the caller's `pend' row until the commit.  `lock' is the row lock that  *)
(* SELECT ... FOR UPDATE and UPDATE take on a concert row; it is held      *)
(* across steps only by an open transaction.                               *)
(***************************************************************************)
EXTENDS Integers, Sequences, FiniteSets, TLC

\* ------------------------------------------------------------------ bounds
NumBookers == 2
NumCancellers == 2
MaxCount == 2
MaxTime == 3
MaxTotalTickets == 2
ScenarioN == 3
ScenarioM == 4
NumUpdaters == 2
NumRequests == 4
Rps == 2
MaxPage == 2
MaxPageSize == 2
MaxFilters == 3

\* --------------------------------------------------------- program constants
DefaultMaxRetries == 3
ConfiguredMaxRetries == 3
MaxTicketsPerBooking == 10
ConcertID == 1
OtherConcertID == ConcertID + 1

\* NewBookingService: a configured value <= 0 is replaced by 3
NewBookingService(configured) ==
    IF configured <= 0 THEN DefaultMaxRetries ELSE configured

\* bookingService.maxRetries
maxRetries == NewBookingService(ConfiguredMaxRetries)

\* the sentinel errors of pkg/logger/logger.go that the repositories return
ErrNotFoundAsConflict == "VersionConflict"
ErrNotFound == "NotFound"
ErrOptimisticLockFailed == "VersionConflict"

Bookers == 1..NumBookers
ScenarioBookers == 1..ScenarioM
AllBookers == Bookers \cup ScenarioBookers \cup {1}
Cancellers == 1..NumCancellers
Updaters == 1..NumUpdaters
Requests == 1..NumRequests
ClientIPs == {"10.0.0.1", "10.0.0.2"}
Pages == (0 - 1)..MaxPage
PageSizes == ((0 - 1)..MaxPageSize) \cup {100, 101}
FilterKeys == {"artist", "venue", "name", "date_from", "date_to", "available"}
\* the orders in which a range over the filters map can visit its keys
FilterOrders ==
    {o \in UNION {[1..k -> FilterKeys] : k \in 0..MaxFilters} :
        \A i, j \in DOMAIN o : i # j => o[i] # o[j]}

ReqConcertIDs == {0, ConcertID, ConcertID + 1}
ReqUserIDs == {"", "alice"}
CancelUserIDs == {"alice", "bob"}
ReqCounts == (0..MaxCount) \cup {MaxTicketsPerBooking + 1}

\* the concerts a client sends to CreateConcert
CreateInputs ==
    [id : {0, ConcertID}, name : {"", "n"}, total : 0..MaxTotalTickets,
     available : 0..(MaxTotalTickets + 1), version : {0},
     start : 0..MaxTime, end : 0..MaxTime]

\* the concerts a client sends to UpdateConcert: the id of the path and the
\* JSON body, with total_tickets, available_tickets and version in it
UpdateInputs ==
    [id : {ConcertID, ConcertID + 1}, name : {"", "n"}, total : 1..(MaxTotalTickets + 1),
     available : 0..MaxTotalTickets, version : 1..2, start : {1}, end : {MaxTime}]

BookingStatusConfirmed == "confirmed"
BookingStatusCancelled == "cancelled"
BookingStatusPending == "pending"

VARIABLES
    now,        \* time.Now()
    concerts,   \* table concerts: id -> committed row
    bookings,   \* table bookings: sequence of committed rows, id = index
    lock,       \* concert id -> booker whose open transaction holds the row lock, 0 if none
    bk,         \* per BookTickets call: position and locals
    cn,         \* per CancelBooking call: position and locals
    credited,   \* history: booking id -> number of times its tickets were added back
    observed,   \* history: versions passed to the committed CreateWithTicketUpdate calls
    before,     \* history: available in the initial state
    up,         \* per call of the concert service or of a conditional update: position and locals
    limiters,   \* RateLimiter: the sync.Map, client IP -> its *rate.Limiter
    buckets,    \* the rate.Limiter values in use: sequence of token counts
    rq,         \* per HTTP request in the RateLimiter middleware: position and locals
    ls          \* the last list call: its arguments and the query it ran

\* the state of the HTTP middleware and of the list operations
apiVars == <<limiters, buckets, rq, ls>>

vars == <<now, concerts, bookings, lock, bk, cn, credited, observed, before, up, apiVars>>

NoConcert == [total |-> 0, available |-> 0, version |-> 0, start |-> 0, end |-> 0]
NoRequest == [concertID |-> 0, userID |-> "", ticketCount |-> 0]
NoBooking == [concertID |-> 0, userID |-> "", ticketCount |-> 0, status |-> ""]

IdleBooker == [pc |-> "idle", req |-> NoRequest, attempt |-> 0, seen |-> 0,
               pend |-> NoConcert, lastErr |-> "", result |-> "", cause |-> "", id |-> 0,
               slept |-> 0]
\* a Concert as a caller passes it: name stands for the required fields name,
\* artist, venue and concert_date
NoInput == [id |-> 0, name |-> "", total |-> 0, available |-> 0, version |-> 0,
            start |-> 0, end |-> 0]
IdleUpdater == [pc |-> "idle", op |-> "", arg |-> NoInput, count |-> 0, result |-> "",
                id |-> 0]
IdleCanceller == [pc |-> "idle", bookingID |-> 0, userID |-> "", booking |-> NoBooking,
                  concert |-> NoConcert, late |-> FALSE, result |-> ""]

\* an HTTP request that has not reached the RateLimiter middleware
IdleRequest == [pc |-> "idle", ip |-> "", limiter |-> 0, status |-> 0]
\* no list call yet
NoList == [op |-> "", page |-> 0, pageSize |-> 0, filters |-> <<>>, limit |-> 0,
           offset |-> 0, conditions |-> <<>>, args |-> <<>>, limitArg |-> 0,
           offsetArg |-> 0]

\* RateLimiter(rps) has just been installed and no list call was made
InitApi ==
    /\ limiters = <<>>
    /\ buckets = <<>>
    /\ rq = [r \in Requests |-> IdleRequest]
    /\ ls = NoList

\* ------------------------------------------------------------- model.Concert
\* Concert.IsBookingOpen
IsBookingOpen(c, t) == t > c.start /\ t < c.end

HasAvailableTicketsAny(c, count) == c.available >= 0
\* Concert.HasAvailableTickets
HasAvailableTickets(c, count) == c.available >= count

\* ------------------------------------------------------------ booking service
validateNothing(req) == ""
\* validateBookingRequest: "" when the request is valid
validateBookingRequest(req) ==
    IF req.concertID <= 0 THEN "InvalidInput"
    ELSE IF req.userID = "" THEN "InvalidInput"
    ELSE IF req.ticketCount <= 0 THEN "InvalidInput"
    ELSE IF req.ticketCount > MaxTicketsPerBooking THEN "InvalidInput"
    ELSE ""

Done(res) == [IdleBooker EXCEPT !.pc = "done", !.result = res]

\* a call that returns before its retry loop; the request stays on record
Rejected(req, res) == [Done(res) EXCEPT !.req = req]

NewBookingPending(req) == [concertID |-> req.concertID, userID |-> req.userID,
                           ticketCount |-> req.ticketCount, status |-> BookingStatusPending]
\* the booking built by BookTickets before its retry loop
NewBooking(req) == [concertID |-> req.concertID, userID |-> req.userID,
                    ticketCount |-> req.ticketCount, status |-> BookingStatusConfirmed]

\* BookTickets before its retry loop: validation, concertRepo.GetByID and the
\* pre-check on that unlocked read.  Calls are numbered in their order of
\* arrival.
BookTickets(p, req) ==
    /\ bk[p].pc = "idle"
    /\ \A o \in AllBookers : o < p => bk[o].pc # "idle"
    /\ bk' = [bk EXCEPT ![p] =
                IF validateBookingRequest(req) # ""
                     THEN Rejected(req, validateBookingRequest(req))
                ELSE IF req.concertID \notin DOMAIN concerts
                     THEN Rejected(req, ErrNotFound)
                ELSE IF ~IsBookingOpen(concerts[req.concertID], now)
                     THEN Rejected(req, "BookingClosed")
                ELSE IF ~HasAvailableTickets(concerts[req.concertID], req.ticketCount)
                     THEN Rejected(req, "InsufficientTickets")
                ELSE [@ EXCEPT !.pc = "loop", !.req = req, !.attempt = 0]]
    /\ UNCHANGED <<now, concerts, bookings, lock, cn, credited, observed, before, up, apiVars>>

LoopContinuesAlways(attempt) == TRUE
\* BookTickets: the loop condition attempt < s.maxRetries
LoopContinues(attempt) == attempt < maxRetries

IsRetryableAny(err) == TRUE
\* BookTickets: errors.Is(err, pkgErr.ErrOptimisticLockFailed)
IsRetryable(err) == err = ErrOptimisticLockFailed

ExhaustedErrorBare(lastErr) == Done("Exhausted")
\* BookTickets: fmt.Errorf("failed to book tickets after %d attempts: %w",
\* s.maxRetries, lastErr)
ExhaustedError(lastErr) == [Done("Exhausted") EXCEPT !.cause = lastErr]

ConcertForUpdateVersionFirst(c) == 1
\* BookTickets: concertForUpdate.Version, the version of this attempt's read
ConcertForUpdateVersion(c) == c.version

\* BookTickets, one pass of the loop up to the call of CreateWithTicketUpdate:
\* concertRepo.GetForUpdate on the pool (it waits for the row lock, reads, and
\* gives the lock back when the statement ends) and the checks on that read.
\* Only the version it read is passed on.
GetForUpdate(p) ==
    LET c == concerts[bk[p].req.concertID]
    IN  /\ bk[p].pc = "loop"
        /\ LoopContinues(bk[p].attempt)
        /\ lock[bk[p].req.concertID] = 0
        /\ bk' = [bk EXCEPT ![p] =
                    IF ~IsBookingOpen(c, now) THEN Done("BookingClosed")
                    ELSE IF ~HasAvailableTickets(c, @.req.ticketCount)
                         THEN Done("InsufficientTickets")
                    ELSE [@ EXCEPT !.pc = "create", !.seen = ConcertForUpdateVersion(c)]]
        /\ UNCHANGED <<now, concerts, bookings, lock, cn, credited, observed, before, up, apiVars>>

\* -------------------------------------------------------- booking repository
ConcertVersionAny(c, concertVersion) == TRUE
\* CreateWithTicketUpdate: "Check if the concert version matches"
ConcertVersionMatches(c, concertVersion) == c.version = concertVersion

UpdateTicketQueryOne(c, count) ==
    [c EXCEPT !.available = @ - 1, !.version = @ + 1]
\* CreateWithTicketUpdate: the row after updateTicketQuery
UpdateTicketQuery(c, count) ==
    [c EXCEPT !.available = @ - count, !.version = @ + 1]

RollbackLost(committed, pending) == pending
\* the deferred tx.Rollback(): the committed row is what stays visible
Rollback(committed, pending) == committed

\* BookTickets: time.Sleep(time.Duration(attempt+1) * 10 * time.Millisecond),
\* in milliseconds
Backoff(attempt) == (attempt + 1) * 10

\* CreateWithTicketUpdate: BEGIN, SELECT ... FOR UPDATE and the three checks.
\* A failed check returns through the deferred rollback, which frees the lock.
\* BookTickets retries the error it finds retryable: it keeps it in lastErr,
\* sleeps and continues; when the loop condition then fails it returns the
\* "failed to book tickets after %d attempts" error.  Any other error is
\* returned at once.  The sleep follows every retryable error, before the loop
\* condition is looked at again.
CreateWithTicketUpdate(p) ==
    LET id == bk[p].req.concertID
        c  == concerts[id]
        err == IF ~ConcertVersionMatches(c, bk[p].seen) THEN ErrOptimisticLockFailed
               ELSE IF ~IsBookingOpen(c, now) THEN "BookingClosed"
               ELSE IF c.available < bk[p].req.ticketCount THEN "InsufficientTickets"
               ELSE ""
    IN  /\ bk[p].pc = "create"
        /\ lock[id] = 0
        /\ IF err = ""
           THEN /\ bk' = [bk EXCEPT ![p].pc = "intx", ![p].pend = c]
                /\ lock' = [lock EXCEPT ![id] = p]
           ELSE /\ bk' = [bk EXCEPT ![p] =
                            IF ~IsRetryable(err) THEN Done(err)
                            ELSE IF LoopContinues(@.attempt + 1)
                            THEN [@ EXCEPT !.pc = "loop", !.attempt = @ + 1,
                                           !.seen = 0, !.lastErr = err,
                                           !.slept = Backoff(bk[p].attempt)]
                            ELSE [ExhaustedError(err) EXCEPT
                                           !.slept = Backoff(bk[p].attempt)]]
                /\ lock' = lock
        /\ UNCHANGED <<now, concerts, bookings, cn, credited, observed, before, up, apiVars>>

\* CreateWithTicketUpdate: tx.ExecContext(updateTicketQuery)
TxUpdate(p) ==
    /\ bk[p].pc = "intx"
    /\ bk' = [bk EXCEPT ![p].pc = "updated",
                        ![p].pend = UpdateTicketQuery(@, bk[p].req.ticketCount)]
    /\ UNCHANGED <<now, concerts, bookings, lock, cn, credited, observed, before, up, apiVars>>

\* CreateWithTicketUpdate: tx.GetContext(createBookingQuery)
TxInsert(p) ==
    /\ bk[p].pc = "updated"
    /\ bk' = [bk EXCEPT ![p].pc = "inserted"]
    /\ UNCHANGED <<now, concerts, bookings, lock, cn, credited, observed, before, up, apiVars>>

CreateBookingQueryTwice(rows, b) == Append(Append(rows, b), b)
\* CreateWithTicketUpdate: createBookingQuery inserts one row
CreateBookingQuery(rows, b) == Append(rows, b)

\* CreateWithTicketUpdate: tx.Commit() makes both writes visible at once
TxCommit(p) ==
    LET id == bk[p].req.concertID
    IN  /\ bk[p].pc = "inserted"
        /\ concerts' = [concerts EXCEPT ![id] = bk[p].pend]
        /\ bookings' = CreateBookingQuery(bookings, NewBooking(bk[p].req))
        /\ credited' = Append(credited, 0)
        /\ observed' = Append(observed, bk[p].seen)
        /\ lock' = [lock EXCEPT ![id] = 0]
        /\ bk' = [bk EXCEPT ![p] = [Done("OK") EXCEPT !.id = Len(bookings) + 1,
                                                      !.req = bk[p].req]]
        /\ UNCHANGED <<now, cn, before, up, apiVars>>

\* CreateWithTicketUpdate: a statement or the commit fails (storage error,
\* deadline, cancelled context); the deferred rollback runs
TxFail(p) ==
    LET id == bk[p].req.concertID
    IN  /\ bk[p].pc \in {"intx", "updated", "inserted"}
        /\ concerts' = [concerts EXCEPT ![id] = Rollback(@, bk[p].pend)]
        /\ lock' = [lock EXCEPT ![id] = 0]
        /\ bk' = [bk EXCEPT ![p] = Done(CASE bk[p].pc = "intx" -> "UpdateFailed"
                                          [] bk[p].pc = "updated" -> "InsertFailed"
                                          [] OTHER -> "CommitFailed")]
        /\ UNCHANGED <<now, bookings, cn, credited, observed, before, up, apiVars>>

\* GetForUpdate or BeginTxx fails: BookTickets returns the error at once
ReadFail(p) ==
    /\ bk[p].pc \in {"loop", "create"}
    /\ LoopContinues(bk[p].attempt)
    /\ bk' = [bk EXCEPT ![p] = Done("StorageError")]
    /\ UNCHANGED <<now, concerts, bookings, lock, cn, credited, observed, before, up, apiVars>>

\* --------------------------------------------------------- concert repository
UpdateWhereAny(stored, c) == TRUE
\* concertRepository.Update: WHERE id = $10 AND version = $11
UpdateWhere(stored, c) == stored.version = c.version

\* concertRepository.Update: the row after the UPDATE, every column taken from
\* the caller's struct and version = version + 1
UpdateRow(stored, c) ==
    [total |-> c.total, available |-> c.available, version |-> stored.version + 1,
     start |-> c.start, end |-> c.end]

\* concertRepository.Update called on its own, as CancelBooking and UpdateConcert
\* call it after they have read the concert: one statement on the pool
Update(u, c) ==
    LET call == [up[u] EXCEPT !.op = "Update", !.arg = c, !.pc = "done"]
    IN  /\ up[u].pc = "idle"
        /\ \A o \in Updaters : o < u => up[o].pc # "idle"
        /\ c.id \in DOMAIN concerts
        /\ lock[c.id] = 0
        /\ IF UpdateWhere(concerts[c.id], c)
           THEN /\ concerts' = [concerts EXCEPT ![c.id] = UpdateRow(@, c)]
                /\ up' = [up EXCEPT ![u] = [call EXCEPT !.result = "OK", !.id = c.id]]
           ELSE /\ up' = [up EXCEPT ![u] = [call EXCEPT !.result = ErrOptimisticLockFailed]]
                /\ UNCHANGED concerts
        /\ UNCHANGED <<now, bookings, lock, bk, cn, credited, observed, before, apiVars>>

\* concertRepository.UpdateTicketCount:
\* WHERE id = $2 AND version = $3 AND available_tickets >= $1
UpdateTicketCountWhere(stored, version, ticketCount) ==
    stored.version = version /\ stored.available >= ticketCount

\* concertRepository.UpdateTicketCount: the row after the UPDATE
UpdateTicketCountRow(stored, ticketCount) ==
    [stored EXCEPT !.available = @ - ticketCount, !.version = @ + 1]

\* concertRepository.UpdateTicketCount: the UPDATE statement; when it changes no
\* row the function goes on to read the concert again
UpdateTicketCount(u, id, version, ticketCount) ==
    LET call == [up[u] EXCEPT !.op = "UpdateTicketCount", !.count = ticketCount,
                              !.arg = [NoInput EXCEPT !.id = id, !.version = version]]
    IN  /\ up[u].pc = "idle"
        /\ \A o \in Updaters : o < u => up[o].pc # "idle"
        /\ id \in DOMAIN concerts => lock[id] = 0
        /\ IF id \in DOMAIN concerts
              /\ UpdateTicketCountWhere(concerts[id], version, ticketCount)
           THEN /\ concerts' = [concerts EXCEPT ![id] = UpdateTicketCountRow(@, ticketCount)]
                /\ up' = [up EXCEPT ![u] = [call EXCEPT !.pc = "done", !.result = "OK",
                                                       !.id = id]]
           ELSE /\ up' = [up EXCEPT ![u] = [call EXCEPT !.pc = "reread"]]
                /\ UNCHANGED concerts
        /\ UNCHANGED <<now, bookings, lock, bk, cn, credited, observed, before, apiVars>>

\* concertRepository.UpdateTicketCount when rowsAffected == 0: r.GetByID and the
\* choice of the error on what that read finds
UpdateTicketCountReread(u) ==
    LET id == up[u].arg.id
    IN  /\ up[u].pc = "reread"
        /\ up' = [up EXCEPT ![u].pc = "done",
                            ![u].result =
                                IF id \notin DOMAIN concerts THEN ErrNotFound
                                ELSE IF concerts[id].version # up[u].arg.version
                                     THEN ErrOptimisticLockFailed
                                ELSE IF concerts[id].available < up[u].count
                                     THEN "InsufficientTickets"
                                ELSE "UpdateFailed"]
        /\ UNCHANGED <<now, concerts, bookings, lock, bk, cn, credited, observed, before, apiVars>>

\* --------------------------------------------------------------- cancellation
IsOwnerAny(b, userID) == TRUE
\* CancelBooking: "Check if the booking belongs to the user"
IsOwner(b, userID) == b.userID = userID

AlreadyCancelledNever(b) == FALSE
\* CancelBooking: "Check if the booking is already cancelled"
AlreadyCancelled(b) == b.status = BookingStatusCancelled

ReturnOne(c, b) == [c EXCEPT !.available = @ + 1]
\* CancelBooking: concert.AvailableTickets += booking.TicketCount
ReturnTickets(c, b) == [c EXCEPT !.available = @ + b.ticketCount]

BookingConcertFirst(b) == ConcertID
\* CancelBooking: the concert it reads and updates is booking.ConcertID
BookingConcert(b) == b.concertID

CancelDone(q, res) == [cn[q] EXCEPT !.pc = "done", !.result = res,
                                    !.booking = NoBooking, !.concert = NoConcert]

\* a CancelBooking call on booking id has already returned success
Succeeded(id) ==
    \E q \in Cancellers : cn[q].pc = "done" /\ cn[q].result = "OK" /\ cn[q].bookingID = id

\* CancelBooking up to BeginTx: bookingRepo.GetByID, the owner check and the
\* status check.  The transaction it begins is given no statement.
\* Calls are numbered in their order of arrival.
CancelBooking(q, id, user) ==
    /\ cn[q].pc = "idle"
    /\ \A o \in Cancellers : o < q => cn[o].pc # "idle"
    /\ cn' = [cn EXCEPT ![q] =
                LET c == [@ EXCEPT !.bookingID = id, !.userID = user, !.late = Succeeded(id)]
                IN  IF id \notin 1..Len(bookings)
                    THEN [c EXCEPT !.pc = "done", !.result = ErrNotFound]
                    ELSE IF ~IsOwner(bookings[id], user)
                    THEN [c EXCEPT !.pc = "done", !.result = "Unauthorized"]
                    ELSE IF AlreadyCancelled(bookings[id])
                    THEN [c EXCEPT !.pc = "done", !.result = "AlreadyCancelled"]
                    ELSE [c EXCEPT !.pc = "begun", !.booking = bookings[id]]]
    /\ UNCHANGED <<now, concerts, bookings, lock, bk, credited, observed, before, up, apiVars>>

\* CancelBooking: booking.Status = cancelled; bookingRepo.Update on the pool
CancelUpdateBooking(q) ==
    /\ cn[q].pc = "begun"
    /\ bookings' = [bookings EXCEPT ![cn[q].bookingID] =
                      [cn[q].booking EXCEPT !.status = BookingStatusCancelled]]
    /\ cn' = [cn EXCEPT ![q].pc = "updated",
                        ![q].booking.status = BookingStatusCancelled]
    /\ UNCHANGED <<now, concerts, lock, bk, credited, observed, before, up, apiVars>>

\* CancelBooking: concertRepo.GetForUpdate on the pool
CancelGetForUpdate(q) ==
    LET id == BookingConcert(cn[q].booking)
    IN  /\ cn[q].pc = "updated"
        /\ lock[id] = 0
        /\ cn' = [cn EXCEPT ![q].pc = "read", ![q].concert = concerts[id]]
        /\ UNCHANGED <<now, concerts, bookings, lock, bk, credited, observed, before, up, apiVars>>

\* CancelBooking: AvailableTickets += TicketCount; concertRepo.Update on the pool
CancelUpdateConcert(q) ==
    LET id == BookingConcert(cn[q].booking)
        c  == ReturnTickets(cn[q].concert, cn[q].booking)
    IN  /\ cn[q].pc = "read"
        /\ lock[id] = 0
        /\ IF UpdateWhere(concerts[id], c)
           THEN /\ concerts' = [concerts EXCEPT ![id] = UpdateRow(@, c)]
                /\ credited' = [credited EXCEPT ![cn[q].bookingID] = @ + 1]
                /\ cn' = [cn EXCEPT ![q].pc = "commit", ![q].concert = NoConcert,
                                    ![q].booking = NoBooking]
           ELSE /\ cn' = [cn EXCEPT ![q] = CancelDone(q, ErrOptimisticLockFailed)]
                /\ UNCHANGED <<concerts, credited>>
        /\ UNCHANGED <<now, bookings, lock, bk, observed, before, up, apiVars>>

\* CancelBooking: tx.Commit() of the empty transaction
CancelCommit(q) ==
    /\ cn[q].pc = "commit"
    /\ \E res \in {"OK", "CommitFailed"} : cn' = [cn EXCEPT ![q] = CancelDone(q, res)]
    /\ UNCHANGED <<now, concerts, bookings, lock, bk, credited, observed, before, up, apiVars>>

\* CancelBooking: a repository call fails (storage error, deadline, cancelled
\* context); the deferred tx.Rollback() has nothing to undo
CancelFail(q) ==
    /\ cn[q].pc \in {"begun", "updated", "read"}
    /\ cn' = [cn EXCEPT ![q] = CancelDone(q, "StorageError")]
    /\ UNCHANGED <<now, concerts, bookings, lock, bk, credited, observed, before, up, apiVars>>

\* ------------------------------------------------------------ concert service
\* validateConcert: "" when the concert is valid.  time.Time values are never
\* the zero time here.
validateConcert(c, t) ==
    IF c.name = "" THEN "InvalidInput"
    ELSE IF c.total <= 0 THEN "InvalidInput"
    ELSE IF c.end < c.start THEN "InvalidInput"
    ELSE IF c.start < t /\ c.id = 0 THEN "InvalidInput"
    ELSE ""

InitialAvailableFromClient(c) == c
\* CreateConcert: concert.AvailableTickets = concert.TotalTickets
InitialAvailable(c) == [c EXCEPT !.available = c.total]

\* concertRepository.Create: the inserted row; version is not in the column
\* list and takes the column default 1
Create(c) ==
    [total |-> c.total, available |-> c.available, version |-> 1,
     start |-> c.start, end |-> c.end]

\* concertService.CreateConcert; ids are given out in sequence
CreateConcertCall(u, c) ==
    LET id == Cardinality(DOMAIN concerts) + 1
        call == [up[u] EXCEPT !.op = "CreateConcert", !.arg = c]
    IN  /\ up[u].pc = "idle"
        /\ \A o \in Updaters : o < u => up[o].pc # "idle"
        /\ IF validateConcert(c, now) # ""
           THEN /\ up' = [up EXCEPT ![u] = [call EXCEPT !.pc = "done",
                                                       !.result = validateConcert(c, now)]]
                /\ UNCHANGED <<concerts, lock>>
           ELSE /\ concerts' = [i \in DOMAIN concerts \cup {id} |->
                                  IF i = id THEN Create(InitialAvailable(c)) ELSE concerts[i]]
                /\ lock' = [i \in DOMAIN concerts \cup {id} |->
                              IF i = id THEN 0 ELSE lock[i]]
                /\ up' = [up EXCEPT ![u] = [call EXCEPT !.pc = "done", !.result = "OK",
                                                       !.id = id]]
        /\ UNCHANGED <<now, bookings, bk, cn, credited, observed, before, apiVars>>

\* concertService.UpdateConcert: validateConcert, concertRepo.GetByID for the
\* existence check, concertRepo.Update.  The UPDATE waits for the row lock.
UpdateConcert(u, c) ==
    LET call == [up[u] EXCEPT !.op = "UpdateConcert", !.arg = c, !.pc = "done"]
    IN  /\ up[u].pc = "idle"
        /\ \A o \in Updaters : o < u => up[o].pc # "idle"
        /\ IF validateConcert(c, now) # ""
           THEN /\ up' = [up EXCEPT ![u] = [call EXCEPT !.result = validateConcert(c, now)]]
                /\ UNCHANGED concerts
           ELSE IF c.id \notin DOMAIN concerts
           THEN /\ up' = [up EXCEPT ![u] = [call EXCEPT !.result = ErrNotFound]]
                /\ UNCHANGED concerts
           ELSE /\ lock[c.id] = 0
                /\ IF UpdateWhere(concerts[c.id], c)
                   THEN /\ concerts' = [concerts EXCEPT ![c.id] = UpdateRow(@, c)]
                        /\ up' = [up EXCEPT ![u] = [call EXCEPT !.result = "OK", !.id = c.id]]
                   ELSE /\ up' = [up EXCEPT ![u] =
                                    [call EXCEPT !.result = ErrOptimisticLockFailed]]
                        /\ UNCHANGED concerts
        /\ UNCHANGED <<now, bookings, lock, bk, cn, credited, observed, before, apiVars>>

\* grpc Server.UpdateConcert, first part: the model built from the request, which
\* has no available_tickets field, and concertService.GetByID "to preserve
\* available tickets"
GrpcUpdateConcert(u, c) ==
    LET call == [up[u] EXCEPT !.op = "grpc.UpdateConcert", !.arg = c]
    IN  /\ up[u].pc = "idle"
        /\ \A o \in Updaters : o < u => up[o].pc # "idle"
        /\ up' = [up EXCEPT ![u] =
                    IF c.id \notin DOMAIN concerts
                    THEN [call EXCEPT !.pc = "done", !.result = ErrNotFound]
                    ELSE [call EXCEPT !.pc = "preserved",
                                      !.arg.available = concerts[c.id].available]]
        /\ UNCHANGED <<now, concerts, bookings, lock, bk, cn, credited, observed, before, apiVars>>

\* grpc Server.UpdateConcert, second part: concertService.UpdateConcert with the
\* model that carries the available tickets read before
GrpcUpdateConcertUpdate(u) ==
    LET c == up[u].arg
    IN  /\ up[u].pc = "preserved"
        /\ IF validateConcert(c, now) # ""
           THEN /\ up' = [up EXCEPT ![u].pc = "done", ![u].result = validateConcert(c, now)]
                /\ UNCHANGED concerts
           ELSE /\ lock[c.id] = 0
                /\ IF UpdateWhere(concerts[c.id], c)
                   THEN /\ concerts' = [concerts EXCEPT ![c.id] = UpdateRow(@, c)]
                        /\ up' = [up EXCEPT ![u].pc = "done", ![u].result = "OK",
                                            ![u].id = c.id]
                   ELSE /\ up' = [up EXCEPT ![u].pc = "done",
                                            ![u].result = ErrOptimisticLockFailed]
                        /\ UNCHANGED concerts
        /\ UNCHANGED <<now, bookings, lock, bk, cn, credited, observed, before, apiVars>>

\* ------------------------------------------------------------ rate limiter
LoadOrStoreOverwrites(m, key, value) ==
    [k \in DOMAIN m \cup {key} |-> IF k = key THEN value ELSE m[k]]
\* sync.Map.LoadOrStore: the map keeps the value it has for the key, or stores
\* the given one
LoadOrStore(m, key, value) ==
    IF key \in DOMAIN m THEN m
    ELSE [k \in DOMAIN m \cup {key} |-> IF k = key THEN value ELSE m[k]]

\* rate.NewLimiter(limit, rps): a bucket that starts with burst = rps tokens
NewLimiter == Rps

\* RateLimiter: c.ClientIP() and limiters.LoadOrStore(clientIP, rate.NewLimiter(
\* limit, rps)).  The limiter built for the call is kept only when the map
\* stores it.  Requests are numbered in their order of arrival.
RateLimiterLoadOrStore(r, clientIP) ==
    LET new == Len(buckets) + 1
        m   == LoadOrStore(limiters, clientIP, new)
    IN  /\ rq[r].pc = "idle"
        /\ \A o \in Requests : o < r => rq[o].pc # "idle"
        /\ limiters' = m
        /\ buckets' = IF m[clientIP] = new THEN Append(buckets, NewLimiter) ELSE buckets
        /\ rq' = [rq EXCEPT ![r] = [@ EXCEPT !.pc = "loaded", !.ip = clientIP,
                                             !.limiter = m[clientIP]]]
        /\ UNCHANGED <<now, concerts, bookings, lock, bk, cn, credited, observed, before, up, ls>>

\* RateLimiter: limiter.Allow() takes one token under the limiter's mutex;
\* without a token the request is answered 429 and aborted, else c.Next()
RateLimiterAllow(r) ==
    LET b == rq[r].limiter
    IN  /\ rq[r].pc = "loaded"
        /\ IF buckets[b] >= 1
           THEN /\ buckets' = [buckets EXCEPT ![b] = @ - 1]
                /\ rq' = [rq EXCEPT ![r].pc = "done", ![r].status = 200]
           ELSE /\ buckets' = buckets
                /\ rq' = [rq EXCEPT ![r].pc = "done", ![r].status = 429]
        /\ UNCHANGED <<now, concerts, bookings, lock, bk, cn, credited, observed, before, up,
                       limiters, ls>>

\* rate.Limiter: time passes and a limiter gains a token, up to its burst
Refill(b) ==
    /\ buckets[b] < Rps
    /\ buckets' = [buckets EXCEPT ![b] = @ + 1]
    /\ UNCHANGED <<now, concerts, bookings, lock, bk, cn, credited, observed, before, up,
                   limiters, rq, ls>>

\* ------------------------------------------------------------ list operations
\* ListConcerts, GetUserBookings: if page < 1 { page = 1 }
NormalisePage(page) == IF page < 1 THEN 1 ELSE page

NormalisePageSizeKept(pageSize) == pageSize
\* ListConcerts, GetUserBookings: if pageSize < 1 || pageSize > 100 { pageSize = 20 }
NormalisePageSize(pageSize) == IF pageSize < 1 \/ pageSize > 100 THEN 20 ELSE pageSize

\* ListConcerts, GetUserBookings: offset := (page - 1) * pageSize
Offset(page, pageSize) == (page - 1) * pageSize

\* buildWhereClause, the loop over the filters in the order the range visits
\* them: every key but "available" appends a condition with placeholder $i and
\* an argument, "available" appends a condition without placeholder (0) and no
\* argument, and i++ follows for every key
RECURSIVE buildWhereLoop(_, _, _, _)
buildWhereLoop(order, i, conditions, args) ==
    IF order = <<>> THEN [conditions |-> conditions, args |-> args]
    ELSE LET key == Head(order)
         IN  IF key = "available"
             THEN buildWhereLoop(Tail(order), i + 1,
                                 Append(conditions, [column |-> key, placeholder |-> 0]),
                                 args)
             ELSE buildWhereLoop(Tail(order), i + 1,
                                 Append(conditions, [column |-> key, placeholder |-> i]),
                                 Append(args, [filter |-> key,
                                               like |-> key \in {"artist", "venue", "name"}]))

\* buildWhereClause: no clause and no arguments for an empty map, i starts at 1
buildWhereClause(order) == buildWhereLoop(order, 1, <<>>, <<>>)

\* concertRepository.List: the WHERE clause, LIMIT $len(args)+1 OFFSET
\* $len(args)+2, and limit and offset appended to the arguments
List(call, limit, offset, order) ==
    LET w == buildWhereClause(order)
    IN  [call EXCEPT !.limit = limit, !.offset = offset, !.conditions = w.conditions,
                     !.args = w.args, !.limitArg = Len(w.args) + 1,
                     !.offsetArg = Len(w.args) + 2]

\* concertService.ListConcerts: normalisation, concertRepo.Count and
\* concertRepo.List, both reads
ListConcerts(page, pageSize, order) ==
    LET call == [NoList EXCEPT !.op = "ListConcerts", !.page = page, !.pageSize = pageSize,
                               !.filters = order]
        size == NormalisePageSize(pageSize)
    IN  /\ ls' = List(call, size, Offset(NormalisePage(page), size), order)
        /\ UNCHANGED <<now, concerts, bookings, lock, bk, cn, credited, observed, before, up,
                       limiters, buckets, rq>>

\* bookingService.GetUserBookings: normalisation and bookingRepo.GetByUserID,
\* WHERE b.user_id = $1 ... LIMIT $2 OFFSET $3
GetUserBookings(userID, page, pageSize) ==
    LET size == NormalisePageSize(pageSize)
    IN  /\ ls' = [NoList EXCEPT !.op = "GetUserBookings", !.page = page,
                                !.pageSize = pageSize, !.limit = size,
                                !.offset = Offset(NormalisePage(page), size),
                                !.conditions = <<[column |-> "user_id", placeholder |-> 1]>>,
                                !.args = <<[filter |-> "user_id", like |-> FALSE]>>,
                                !.limitArg = 2, !.offsetArg = 3]
        /\ UNCHANGED <<now, concerts, bookings, lock, bk, cn, credited, observed, before, up,
                       limiters, buckets, rq>>

\* the clock
Tick ==
    /\ now < MaxTime
    /\ now' = now + 1
    /\ UNCHANGED <<concerts, bookings, lock, bk, cn, credited, observed, before, up, apiVars>>

\* the row stored by CreateConcert: available_tickets = total_tickets and the
\* column default version = 1
CreateConcert(total, start, end) ==
    [total |-> total, available |-> total, version |-> 1, start |-> start, end |-> end]

Init ==
    \E total \in 1..MaxTotalTickets :
        /\ now = 0
        /\ concerts = [i \in {ConcertID} |-> CreateConcert(total, 1, MaxTime)]
        /\ bookings = <<>>
        /\ lock = [i \in {ConcertID} |-> 0]
        /\ bk = [p \in AllBookers |-> IdleBooker]
        /\ cn = [q \in Cancellers |-> IdleCanceller]
        /\ credited = <<>>
        /\ observed = <<>>
        /\ before = total
        /\ up = [u \in Updaters |-> IdleUpdater]
        /\ InitApi

Next ==
    \/ Tick
    \/ \E p \in Bookers :
         \/ \E id \in ReqConcertIDs, u \in ReqUserIDs, n \in ReqCounts :
              BookTickets(p, [concertID |-> id, userID |-> u, ticketCount |-> n])
         \/ GetForUpdate(p)
         \/ CreateWithTicketUpdate(p)
         \/ TxUpdate(p)
         \/ TxInsert(p)
         \/ TxCommit(p)
         \/ TxFail(p)
         \/ ReadFail(p)
    \/ \E q \in Cancellers :
         \/ \E id \in 1..(Len(bookings) + 1), u \in CancelUserIDs : CancelBooking(q, id, u)
         \/ CancelUpdateBooking(q)
         \/ CancelGetForUpdate(q)
         \/ CancelUpdateConcert(q)
         \/ CancelCommit(q)
         \/ CancelFail(q)

Spec == Init /\ [][Next]_vars

\* ------------------------------------------------------------- bookings only
\* Concurrent BookTickets calls with every failure of a storage call, no
\* cancellation
NextBook ==
    \/ Tick
    \/ \E p \in Bookers :
         \/ \E id \in ReqConcertIDs, u \in ReqUserIDs, n \in ReqCounts :
              BookTickets(p, [concertID |-> id, userID |-> u, ticketCount |-> n])
         \/ GetForUpdate(p)
         \/ CreateWithTicketUpdate(p)
         \/ TxUpdate(p)
         \/ TxInsert(p)
         \/ TxCommit(p)
         \/ TxFail(p)
         \/ ReadFail(p)

SpecBook == Init /\ [][NextBook]_vars

\* ------------------------------------------------------------- cancellations only
\* Concurrent CancelBooking calls on the bookings made earlier: one of alice
\* and possibly one of bob
InitCancel ==
    \E total \in 1..MaxTotalTickets, a \in 1..MaxCount, b \in 0..MaxCount :
        /\ a + b <= total
        /\ now = 2
        /\ concerts = [i \in {ConcertID} |->
                         LET first == UpdateTicketQuery(CreateConcert(total, 1, MaxTime), a)
                         IN  IF b > 0 THEN UpdateTicketQuery(first, b) ELSE first]
        /\ bookings = <<NewBooking([concertID |-> ConcertID, userID |-> "alice",
                                    ticketCount |-> a])>>
                      \o (IF b > 0
                          THEN <<NewBooking([concertID |-> ConcertID, userID |-> "bob",
                                             ticketCount |-> b])>>
                          ELSE <<>>)
        /\ lock = [i \in {ConcertID} |-> 0]
        /\ bk = [p \in AllBookers |-> IdleBooker]
        /\ cn = [q \in Cancellers |-> IdleCanceller]
        /\ credited = IF b > 0 THEN <<0, 0>> ELSE <<0>>
        /\ observed = IF b > 0 THEN <<1, 2>> ELSE <<1>>
        /\ before = total - a - b
        /\ up = [u \in Updaters |-> IdleUpdater]
        /\ InitApi

NextCancel ==
    \E q \in Cancellers :
        \/ \E id \in 1..(Len(bookings) + 1), u \in CancelUserIDs : CancelBooking(q, id, u)
        \/ CancelUpdateBooking(q)
        \/ CancelGetForUpdate(q)
        \/ CancelUpdateConcert(q)
        \/ CancelCommit(q)
        \/ CancelFail(q)

SpecCancel == InitCancel /\ [][NextCancel]_vars

\* ------------------------------------------------------------- Scenario A
\* TestConcurrencyRaceCondition: ScenarioM callers, each a distinct user asking
\* for one ticket of a concert with ScenarioN tickets and an open window
ScenarioRequest(p) ==
    [concertID |-> ConcertID, userID |-> "racetest-user-" \o ToString(p), ticketCount |-> 1]

InitA ==
    /\ now = 1
    /\ concerts = [i \in {ConcertID} |-> CreateConcert(ScenarioN, 0, 2)]
    /\ bookings = <<>>
    /\ lock = [i \in {ConcertID} |-> 0]
    /\ bk = [p \in AllBookers |-> IdleBooker]
    /\ cn = [q \in Cancellers |-> IdleCanceller]
    /\ credited = <<>>
    /\ observed = <<>>
    /\ before = ScenarioN
    /\ up = [u \in Updaters |-> IdleUpdater]
    /\ InitApi

NextA ==
    \E p \in ScenarioBookers :
        \/ BookTickets(p, ScenarioRequest(p))
        \/ GetForUpdate(p)
        \/ CreateWithTicketUpdate(p)
        \/ TxUpdate(p)
        \/ TxInsert(p)
        \/ TxCommit(p)

SpecA == InitA /\ [][NextA]_vars

\* ------------------------------------------------------------- round trip
\* One caller books and then cancels that booking; nothing else touches the
\* concert, so no attempt meets a version conflict.  Some tickets may already be
\* held by an earlier booking.
InitRT ==
    \E total \in 1..MaxTotalTickets, held \in 0..MaxTotalTickets :
        /\ held <= total
        /\ now = 0
        /\ concerts = [i \in {ConcertID} |->
                         IF held > 0
                         THEN UpdateTicketQuery(CreateConcert(total, 1, MaxTime), held)
                         ELSE CreateConcert(total, 1, MaxTime)]
        /\ bookings = IF held > 0
                      THEN <<[concertID |-> ConcertID, userID |-> "bob",
                              ticketCount |-> held, status |-> BookingStatusConfirmed]>>
                      ELSE <<>>
        /\ lock = [i \in {ConcertID} |-> 0]
        /\ bk = [p \in AllBookers |-> IdleBooker]
        /\ cn = [q \in Cancellers |-> IdleCanceller]
        /\ credited = IF held > 0 THEN <<0>> ELSE <<>>
        /\ observed = IF held > 0 THEN <<1>> ELSE <<>>
        /\ before = total - held
        /\ up = [u \in Updaters |-> IdleUpdater]
        /\ InitApi

NextRT ==
    \/ Tick
    \/ \E id \in ReqConcertIDs, u \in ReqUserIDs, n \in ReqCounts :
         BookTickets(1, [concertID |-> id, userID |-> u, ticketCount |-> n])
    \/ GetForUpdate(1)
    \/ CreateWithTicketUpdate(1)
    \/ TxUpdate(1)
    \/ TxInsert(1)
    \/ TxCommit(1)
    \/ TxFail(1)
    \/ ReadFail(1)
    \/ /\ bk[1].pc = "done"
       /\ bk[1].result = "OK"
       /\ CancelBooking(1, bk[1].id, bk[1].req.userID)
    \/ CancelUpdateBooking(1)
    \/ CancelGetForUpdate(1)
    \/ CancelUpdateConcert(1)
    \/ CancelCommit(1)
    \/ CancelFail(1)

SpecRT == InitRT /\ [][NextRT]_vars

\* ------------------------------------------------------------- one call of each
\* One BookTickets call and one CancelBooking call with any arguments, running
\* concurrently on a concert that may hold an earlier booking
NextPair ==
    \/ Tick
    \/ \E id \in ReqConcertIDs, u \in ReqUserIDs, n \in ReqCounts :
         BookTickets(1, [concertID |-> id, userID |-> u, ticketCount |-> n])
    \/ GetForUpdate(1)
    \/ CreateWithTicketUpdate(1)
    \/ TxUpdate(1)
    \/ TxInsert(1)
    \/ TxCommit(1)
    \/ TxFail(1)
    \/ ReadFail(1)
    \/ \E id \in 1..(Len(bookings) + 1), u \in CancelUserIDs : CancelBooking(1, id, u)
    \/ CancelUpdateBooking(1)
    \/ CancelGetForUpdate(1)
    \/ CancelUpdateConcert(1)
    \/ CancelCommit(1)
    \/ CancelFail(1)

SpecPair == InitRT /\ [][NextPair]_vars

\* ------------------------------------------------------------- concert update
\* One BookTickets call, one CancelBooking call and one UpdateConcert call with
\* any arguments, running concurrently
NextAdmin ==
    \/ Tick
    \/ \E id \in ReqConcertIDs, u \in ReqUserIDs, n \in ReqCounts :
         BookTickets(1, [concertID |-> id, userID |-> u, ticketCount |-> n])
    \/ GetForUpdate(1)
    \/ CreateWithTicketUpdate(1)
    \/ TxUpdate(1)
    \/ TxInsert(1)
    \/ TxCommit(1)
    \/ TxFail(1)
    \/ ReadFail(1)
    \/ \E id \in 1..(Len(bookings) + 1), u \in CancelUserIDs : CancelBooking(1, id, u)
    \/ CancelUpdateBooking(1)
    \/ CancelGetForUpdate(1)
    \/ CancelUpdateConcert(1)
    \/ CancelCommit(1)
    \/ CancelFail(1)
    \/ \E c \in UpdateInputs : UpdateConcert(1, c)

SpecAdmin == InitRT /\ [][NextAdmin]_vars

\* ------------------------------------------------------------- concert update over gRPC
\* the concerts a client can send in an UpdateConcertRequest
GrpcUpdateInputs ==
    [id : {ConcertID, OtherConcertID}, name : {"", "n"}, total : 1..MaxTotalTickets,
     available : {0}, version : 1..3, start : {1}, end : {MaxTime}]

\* One BookTickets call, one CancelBooking call and one UpdateConcert call over
\* gRPC with any arguments, running concurrently
NextGrpc ==
    \/ Tick
    \/ \E id \in ReqConcertIDs, u \in ReqUserIDs, n \in ReqCounts :
         BookTickets(1, [concertID |-> id, userID |-> u, ticketCount |-> n])
    \/ GetForUpdate(1)
    \/ CreateWithTicketUpdate(1)
    \/ TxUpdate(1)
    \/ TxInsert(1)
    \/ TxCommit(1)
    \/ TxFail(1)
    \/ ReadFail(1)
    \/ \E id \in 1..(Len(bookings) + 1), u \in CancelUserIDs : CancelBooking(1, id, u)
    \/ CancelUpdateBooking(1)
    \/ CancelGetForUpdate(1)
    \/ CancelUpdateConcert(1)
    \/ CancelCommit(1)
    \/ CancelFail(1)
    \/ \E c \in GrpcUpdateInputs : GrpcUpdateConcert(1, c)
    \/ GrpcUpdateConcertUpdate(1)

SpecGrpc == InitRT /\ [][NextGrpc]_vars

\* ------------------------------------------------------------- concert creation
\* One CreateConcert call with any concert a client can send, at any time
NextCreate ==
    \/ Tick
    \/ \E c \in CreateInputs : CreateConcertCall(1, c)

SpecCreate == Init /\ [][NextCreate]_vars

\* ------------------------------------------------------------- version-guarded updates
\* the concerts a caller of concertRepository.Update can pass
RepoUpdateInputs ==
    [id : {ConcertID}, name : {"n"}, total : {MaxTotalTickets},
     available : 0..MaxTotalTickets, version : 1..(NumUpdaters + 1),
     start : {1}, end : {MaxTime}]

\* Concurrent calls of concertRepository.Update and
\* concertRepository.UpdateTicketCount, one per caller
NextUpdate ==
    \E u \in Updaters :
        \/ \E c \in RepoUpdateInputs : Update(u, c)
        \/ \E id \in {ConcertID, OtherConcertID}, v \in 1..(NumUpdaters + 1), n \in 0..MaxCount :
             UpdateTicketCount(u, id, v, n)
        \/ UpdateTicketCountReread(u)

SpecUpdate == Init /\ [][NextUpdate]_vars

\* ------------------------------------------------------------- rate limiting
\* Concurrent requests from the client IPs passing the RateLimiter middleware
NextLimit ==
    \/ \E r \in Requests :
         \/ \E ip \in ClientIPs : RateLimiterLoadOrStore(r, ip)
         \/ RateLimiterAllow(r)
    \/ \E b \in 1..Len(buckets) : Refill(b)

SpecLimit == Init /\ [][NextLimit]_vars

\* ------------------------------------------------------------- lists
\* One list call with any page, page size and filters, on a concert with
\* bookings
NextList ==
    /\ ls = NoList
    /\ \/ \E page \in Pages, pageSize \in PageSizes, order \in FilterOrders :
            ListConcerts(page, pageSize, order)
       \/ \E userID \in CancelUserIDs, page \in Pages, pageSize \in PageSizes :
            GetUserBookings(userID, page, pageSize)

SpecList == InitCancel /\ [][NextList]_vars

\* ------------------------------------------------------------- two concerts
\* a BookTickets or CancelBooking call on concert id has started and not returned
InFlightOn(id) ==
    \/ \E p \in Bookers : bk[p].pc \notin {"idle", "done"} /\ bk[p].req.concertID = id
    \/ \E q \in Cancellers :
         /\ cn[q].pc \notin {"idle", "done"}
         /\ bookings[cn[q].bookingID].concertID = id

\* Two concerts, each with one earlier booking of alice
InitTwo ==
    \E total \in [{ConcertID, OtherConcertID} -> 1..MaxTotalTickets] :
        /\ now = 2
        /\ concerts = [i \in {ConcertID, OtherConcertID} |->
                         UpdateTicketQuery(CreateConcert(total[i], 1, MaxTime), 1)]
        /\ bookings = <<NewBooking([concertID |-> ConcertID, userID |-> "alice",
                                    ticketCount |-> 1]),
                        NewBooking([concertID |-> OtherConcertID, userID |-> "alice",
                                    ticketCount |-> 1])>>
        /\ lock = [i \in {ConcertID, OtherConcertID} |-> 0]
        /\ bk = [p \in AllBookers |-> IdleBooker]
        /\ cn = [q \in Cancellers |-> IdleCanceller]
        /\ credited = <<0, 0>>
        /\ observed = <<1, 1>>
        /\ before = total[ConcertID] - 1
        /\ up = [u \in Updaters |-> IdleUpdater]
        /\ InitApi

\* Two BookTickets calls and two CancelBooking calls.  Calls on the same concert
\* come one after the other; calls on different concerts run concurrently
Callers == {1, 2}

NextTwo ==
    \/ \E p \in Callers :
         \/ \E id \in {ConcertID, OtherConcertID}, n \in 1..MaxCount :
              /\ ~InFlightOn(id)
              /\ BookTickets(p, [concertID |-> id, userID |-> "alice", ticketCount |-> n])
         \/ GetForUpdate(p)
         \/ CreateWithTicketUpdate(p)
         \/ TxUpdate(p)
         \/ TxInsert(p)
         \/ TxCommit(p)
         \/ TxFail(p)
    \/ \E q \in Callers :
         \/ \E id \in 1..Len(bookings) :
              /\ ~InFlightOn(bookings[id].concertID)
              /\ CancelBooking(q, id, "alice")
         \/ CancelUpdateBooking(q)
         \/ CancelGetForUpdate(q)
         \/ CancelUpdateConcert(q)
         \/ CancelCommit(q)
         \/ CancelFail(q)

SpecTwo == InitTwo /\ [][NextTwo]_vars

\* ------------------------------------------------------------- properties
RECURSIVE SumConfirmed(_, _)
SumConfirmed(id, n) ==
    IF n = 0 THEN 0
    ELSE SumConfirmed(id, n - 1)
         + (IF bookings[n].concertID = id /\ bookings[n].status = BookingStatusConfirmed
            THEN bookings[n].ticketCount ELSE 0)

\* tickets of concert id held by its Confirmed bookings
ConfirmedTickets(id) == SumConfirmed(id, Len(bookings))

\* a CancelBooking call on booking id is between its first write and its return
InFlight(id) ==
    \E q \in Cancellers : cn[q].bookingID = id /\ cn[q].pc \notin {"idle", "done"}

\* a CancelBooking call on booking id has returned, with success or an error
Returned(id) ==
    \E q \in Cancellers : cn[q].bookingID = id /\ cn[q].pc = "done"

\* C1: the tickets held by a concert's Confirmed bookings never exceed its
\* total capacity
NoOverbooking ==
    \A id \in DOMAIN concerts : ConfirmedTickets(id) <= concerts[id].total

\* C2: for every concert, capacity minus available equals the tickets held by
\* its Confirmed bookings
Accounting ==
    \A id \in DOMAIN concerts :
        concerts[id].total - concerts[id].available = ConfirmedTickets(id)

\* C3: for every concert, 0 <= available <= total capacity
AvailableInRange ==
    \A id \in DOMAIN concerts :
        0 <= concerts[id].available /\ concerts[id].available <= concerts[id].total

\* C4: every step either makes visible one new Confirmed booking together with
\* the decrement of available by its ticket count, or makes visible no new
\* booking and no decrement
BookingAtomicity ==
    [][\A id \in DOMAIN concerts :
         \/ /\ Len(bookings') = Len(bookings) + 1
            /\ bookings'[Len(bookings')].status = BookingStatusConfirmed
            /\ concerts'[bookings'[Len(bookings')].concertID].available
                 = concerts[bookings'[Len(bookings')].concertID].available
                     - bookings'[Len(bookings')].ticketCount
         \/ /\ Len(bookings') = Len(bookings)
            /\ concerts'[id].available >= concerts[id].available]_vars

\* a booking attempt failed inside its transaction after the UPDATE, and another
\* attempt committed
AbortedAndCommitted ==
    /\ \E p \in AllBookers : bk[p].result \in {"InsertFailed", "CommitFailed"}
    /\ \E p \in AllBookers : bk[p].result = "OK"

\* C5: once a CancelBooking call on a booking has returned, with success or an
\* error, the booking is Cancelled if and only if its tickets were added back
CancellationAtomicity ==
    \A id \in 1..Len(bookings) :
        (Returned(id) /\ ~InFlight(id)) =>
            ((bookings[id].status = BookingStatusCancelled) <=> (credited[id] >= 1))

\* C6: the tickets of a booking are added back at most once, and, when no
\* cancellation of it is running, exactly once if it is Cancelled and not at all
\* otherwise
ReturnedExactlyOnce ==
    \A id \in 1..Len(bookings) :
        /\ credited[id] <= 1
        /\ ~InFlight(id) =>
              credited[id] = (IF bookings[id].status = BookingStatusCancelled THEN 1 ELSE 0)

\* C7: the committed booking transactions observed pairwise different versions,
\* increasing in the order of their commits
VersionUniqueness ==
    \A i, j \in 1..Len(observed) : i < j => observed[i] < observed[j]

\* two booking transactions have committed on the concert
TwoCommitted == Len(observed) >= 2

\* C8: when all ScenarioM calls have returned, exactly ScenarioN succeeded, the
\* other ScenarioM - ScenarioN failed with InsufficientTickets, and no ticket is
\* left
ScenarioA ==
    (\A p \in ScenarioBookers : bk[p].pc = "done") =>
        /\ Cardinality({p \in ScenarioBookers : bk[p].result = "OK"}) = ScenarioN
        /\ Cardinality({p \in ScenarioBookers : bk[p].result = "InsufficientTickets"})
             = ScenarioM - ScenarioN
        /\ concerts[ConcertID].available = 0

\* C9: a CancelBooking call by the owner that starts after a call on the same
\* booking returned success ends with AlreadyCancelled, and its step changes
\* neither the concert nor the booking
CancelIdempotence ==
    [][\A q \in Cancellers :
         (/\ cn'[q] # cn[q]
          /\ cn'[q].late
          /\ cn'[q].userID = bookings[cn'[q].bookingID].userID)
         => /\ cn'[q].pc = "done"
            /\ cn'[q].result = "AlreadyCancelled"
            /\ UNCHANGED <<concerts, bookings, credited>>]_vars

\* a call by the owner that started after a successful cancellation has returned
LateCancelReturned ==
    \E q \in Cancellers :
        /\ cn[q].late
        /\ cn[q].pc = "done"
        /\ cn[q].userID = bookings[cn[q].bookingID].userID

\* C10: after a successful booking and a successful cancellation of it, with
\* nothing else done on the concert, available is what it was before the booking
\* and the booking is Cancelled
RoundTrip ==
    (cn[1].pc = "done" /\ cn[1].result = "OK") =>
        /\ concerts[ConcertID].available = before
        /\ bookings[bk[1].id].status = BookingStatusCancelled

\* the booking of more than one ticket was made and then cancelled
RoundTripDone ==
    /\ cn[1].pc = "done"
    /\ cn[1].result = "OK"
    /\ bk[1].req.ticketCount > 1

\* C11: a CancelBooking call on an existing booking by a user who is not its
\* owner returns Unauthorized at once, and its step changes neither the booking
\* nor the concert
CancelUnauthorized ==
    [][\A q \in Cancellers :
         (/\ cn[q].pc = "idle"
          /\ cn'[q].pc # "idle"
          /\ cn'[q].bookingID \in 1..Len(bookings)
          /\ bookings[cn'[q].bookingID].userID # cn'[q].userID)
         => /\ cn'[q].pc = "done"
            /\ cn'[q].result = "Unauthorized"
            /\ UNCHANGED <<concerts, bookings, credited>>]_vars

\* a call by another user on a Confirmed booking has returned Unauthorized
UnauthorizedReturned ==
    \E q \in Cancellers :
        /\ cn[q].pc = "done"
        /\ cn[q].result = "Unauthorized"
        /\ bookings[cn[q].bookingID].status = BookingStatusConfirmed

\* C12: an attempt that meets a version conflict changes neither the concert
\* nor the bookings; when it is the attempt number maxRetries the call returns
\* the Exhausted error, whose cause is the version conflict and which is not
\* the version conflict itself; and Exhausted is returned in no other case
Exhaustion ==
    [][\A p \in AllBookers :
         LET conflict == /\ bk[p].pc = "create"
                         /\ bk'[p] # bk[p]
                         /\ ~ConcertVersionMatches(concerts[bk[p].req.concertID], bk[p].seen)
             last == bk[p].attempt + 1 = maxRetries
         IN  /\ conflict => UNCHANGED <<concerts, bookings>>
             /\ (conflict /\ last) =>
                   /\ bk'[p].pc = "done"
                   /\ bk'[p].result = "Exhausted"
                   /\ bk'[p].cause = ErrOptimisticLockFailed
                   /\ bk'[p].result # ErrOptimisticLockFailed
                   /\ bk'[p].id = 0
             /\ (bk[p].pc # "done" /\ bk'[p].pc = "done" /\ bk'[p].result = "Exhausted")
                   => (conflict /\ last)]_vars

\* a call has returned the Exhausted error
ExhaustedReturned ==
    \E p \in AllBookers : bk[p].pc = "done" /\ bk[p].result = "Exhausted"

\* C13: no BookTickets call and no CancelBooking call returns the version
\* conflict error
ConflictNeverSurfaced ==
    /\ \A p \in AllBookers : bk[p].result # ErrOptimisticLockFailed
    /\ \A q \in Cancellers : cn[q].result # ErrOptimisticLockFailed

\* C14: BookTickets starts another attempt only after a version conflict; when
\* an attempt fails in any other way (window closed or too few tickets under
\* the lock, a failed statement or commit, a failed read) the call returns that
\* error in the same step
OnlyConflictsRetried ==
    [][\A p \in Bookers :
         LET c == concerts[bk[p].req.concertID]
             conflict == /\ bk[p].pc = "create"
                         /\ ~ConcertVersionMatches(c, bk[p].seen)
             moved == bk'[p] # bk[p]
         IN  /\ (moved /\ bk'[p].attempt # bk[p].attempt /\ bk'[p].pc # "done") => conflict
             /\ (moved /\ bk'[p].pc = "loop" /\ bk[p].pc # "idle") => conflict
             /\ (moved /\ bk[p].pc \in {"loop", "create"} /\ ~conflict /\ ~IsBookingOpen(c, now))
                   => bk'[p].pc = "done" /\ bk'[p].result \in {"BookingClosed", "StorageError"}
             /\ (moved /\ bk[p].pc \in {"loop", "create"} /\ ~conflict /\ IsBookingOpen(c, now)
                       /\ c.available < bk[p].req.ticketCount)
                   => bk'[p].pc = "done"
                      /\ bk'[p].result \in {"InsufficientTickets", "StorageError"}
             /\ (moved /\ bk[p].pc \in {"intx", "updated", "inserted"} /\ lock' # lock
                       /\ bookings' = bookings)
                   => bk'[p].pc = "done"
                      /\ bk'[p].result \in {"UpdateFailed", "InsertFailed", "CommitFailed"}]_vars

\* a call has returned the error of a failed statement or commit of its attempt
AttemptFailedReturned ==
    \E p \in Bookers :
        /\ bk[p].pc = "done"
        /\ bk[p].result \in {"UpdateFailed", "InsertFailed", "CommitFailed"}

\* ------------------------------------------------------------- termination
\* The calls of Scenario A, where a statement or the commit of a transaction
\* may fail.  Every storage call completes: a call that can take a step
\* eventually takes one.  The row lock is granted once no transaction holds it.
BookerStep(p) ==
    \/ GetForUpdate(p)
    \/ CreateWithTicketUpdate(p)
    \/ TxUpdate(p)
    \/ TxInsert(p)
    \/ TxCommit(p)
    \/ TxFail(p)

NextLive ==
    \E p \in ScenarioBookers :
        \/ BookTickets(p, ScenarioRequest(p))
        \/ GetForUpdate(p)
        \/ CreateWithTicketUpdate(p)
        \/ TxUpdate(p)
        \/ TxInsert(p)
        \/ TxCommit(p)
        \/ TxFail(p)

SpecLive ==
    /\ InitA
    /\ [][NextLive]_vars
    /\ \A p \in ScenarioBookers : WF_vars(BookerStep(p))

\* C15: a call makes at most maxRetries attempts (3 when the configured value
\* is <= 0), from some point on no call is left between its start and its
\* return (each call starts once, so every call that starts returns), and what
\* a call returns is final and is either a booking or an error
BoundedTermination ==
    /\ \A configured \in {-1, 0} : NewBookingService(configured) = 3
    /\ [](\A p \in ScenarioBookers : bk[p].attempt + 1 <= maxRetries)
    /\ <>[](\A p \in ScenarioBookers : bk[p].pc \in {"idle", "done"})
    /\ [](\A p \in ScenarioBookers :
            bk[p].pc = "done" => /\ bk[p].result # ""
                                 /\ (bk[p].result = "OK") <=> (bk[p].id # 0))
    /\ [][\A p \in ScenarioBookers : bk[p].pc = "done" => bk'[p] = bk[p]]_vars

\* a call has returned after the last attempt the loop allows
LastAttemptReturned ==
    \E p \in ScenarioBookers : bk[p].pc = "done" /\ bk[p].result = "Exhausted"
                               /\ \E o \in ScenarioBookers : bk[o].result = "OK"

\* C16: a valid BookTickets request on an existing concert is refused with
\* BookingClosed exactly when the time of the call is outside
\* [bookingWindowStart, bookingWindowEnd], and a refused call changes nothing
BookingWindowClosedInterval ==
    [][\A p \in Bookers :
         (/\ bk[p].pc = "idle"
          /\ bk'[p].pc # "idle"
          /\ validateBookingRequest(bk'[p].req) = ""
          /\ bk'[p].req.concertID \in DOMAIN concerts)
         => LET c == concerts[bk'[p].req.concertID]
                outside == now < c.start \/ now > c.end
            IN  /\ (bk'[p].pc = "done" /\ bk'[p].result = "BookingClosed") <=> outside
                /\ outside => UNCHANGED <<concerts, bookings>>]_vars

\* C17: a valid BookTickets request (ticketCount in 1..10) made inside
\* [bookingWindowStart, bookingWindowEnd] for more tickets than are available
\* returns InsufficientTickets and changes neither the bookings nor the concert
InsufficientTicketsRefused ==
    [][\A p \in Bookers :
         (/\ bk[p].pc = "idle"
          /\ bk'[p].pc # "idle"
          /\ validateBookingRequest(bk'[p].req) = ""
          /\ bk'[p].req.concertID \in DOMAIN concerts
          /\ now >= concerts[bk'[p].req.concertID].start
          /\ now <= concerts[bk'[p].req.concertID].end
          /\ concerts[bk'[p].req.concertID].available < bk'[p].req.ticketCount)
         => /\ bk'[p].pc = "done"
            /\ bk'[p].result = "InsufficientTickets"
            /\ UNCHANGED <<concerts, bookings>>]_vars

\* C18: a BookTickets request of a user for an existing concert, made while
\* booking is open, for any count above the available tickets returns
\* InsufficientTickets and changes neither the bookings nor the concert
TooManyTicketsRefused ==
    [][\A p \in Bookers :
         (/\ bk[p].pc = "idle"
          /\ bk'[p].pc # "idle"
          /\ bk'[p].req.userID # ""
          /\ bk'[p].req.concertID \in DOMAIN concerts
          /\ IsBookingOpen(concerts[bk'[p].req.concertID], now)
          /\ concerts[bk'[p].req.concertID].available < bk'[p].req.ticketCount)
         => /\ bk'[p].pc = "done"
            /\ bk'[p].result = "InsufficientTickets"
            /\ UNCHANGED <<concerts, bookings>>]_vars

NotFoundPropagation ==
    [][/\ \A p \in Bookers :
            (/\ bk[p].pc = "idle"
             /\ bk'[p].pc # "idle"
             /\ validateBookingRequest(bk'[p].req) = ""
             /\ bk'[p].req.concertID \notin DOMAIN concerts)
            => /\ bk'[p].pc = "done"
               /\ bk'[p].result = "NotFound"
               /\ bk'[p].result # ErrOptimisticLockFailed
               /\ UNCHANGED <<concerts, bookings>>
       /\ \A q \in Cancellers :
            (/\ cn[q].pc = "idle"
             /\ cn'[q].pc # "idle"
             /\ cn'[q].bookingID \notin 1..Len(bookings))
            => /\ cn'[q].pc = "done"
               /\ cn'[q].result = "NotFound"
               /\ cn'[q].result # ErrOptimisticLockFailed
               /\ UNCHANGED <<concerts, bookings, credited>>]_vars

\* a BookTickets call and a CancelBooking call have both returned NotFound
NotFoundReturned ==
    /\ bk[1].pc = "done"
    /\ bk[1].result = "NotFound"
    /\ cn[1].pc = "done"
    /\ cn[1].result = "NotFound"

\* C29: a CreateConcert call that succeeds stores a concert with available
\* equal to the total_tickets it was given, whatever available_tickets it was
\* given, and version 1
CreateConcertInitialState ==
    \A u \in Updaters :
        (up[u].op = "CreateConcert" /\ up[u].result = "OK") =>
            /\ up[u].id \in DOMAIN concerts
            /\ concerts[up[u].id].total = up[u].arg.total
            /\ concerts[up[u].id].available = up[u].arg.total
            /\ concerts[up[u].id].version = 1

\* a concert sent with available_tickets different from total_tickets was
\* created
ConcertCreated ==
    \E u \in Updaters :
        /\ up[u].op = "CreateConcert"
        /\ up[u].result = "OK"
        /\ up[u].arg.available # up[u].arg.total

\* C30: a CreateConcert call for a concert with the required fields, a positive
\* total_tickets and a booking window that contains the time of the call
\* succeeds
CreateConcertOpenWindow ==
    [][\A u \in Updaters :
         (/\ up[u].pc = "idle"
          /\ up'[u].op = "CreateConcert"
          /\ up'[u].arg.name # ""
          /\ up'[u].arg.total > 0
          /\ up'[u].arg.start < now
          /\ now < up'[u].arg.end)
         => up'[u].result = "OK"]_vars

\* C21: every change of a concert's available is a decrease by the ticketCount
\* of the booking committed in the same step, or an increase by the ticketCount
\* of the booking that the CancelBooking call making the step has cancelled
AvailableNeverFromClient ==
    [][\A id \in DOMAIN concerts :
         concerts'[id].available # concerts[id].available =>
            \/ /\ Len(bookings') = Len(bookings) + 1
               /\ bookings'[Len(bookings')].concertID = id
               /\ bookings'[Len(bookings')].status = BookingStatusConfirmed
               /\ concerts'[id].available
                    = concerts[id].available - bookings'[Len(bookings')].ticketCount
            \/ \E q \in Cancellers :
                 /\ cn[q].pc = "read"
                 /\ cn'[q].pc = "commit"
                 /\ bookings[cn[q].bookingID].concertID = id
                 /\ bookings[cn[q].bookingID].status = BookingStatusCancelled
                 /\ concerts'[id].available
                      = concerts[id].available + bookings[cn[q].bookingID].ticketCount]_vars

\* C22: no step changes the total of a concert
TotalCapacityFixed ==
    [][\A id \in DOMAIN concerts : concerts'[id].total = concerts[id].total]_vars

\* C23: a step leaves a concert's version as it is or adds 1 to it; the commit
\* of a booking, the ticket return of a cancellation and a successful update
\* add 1; a call that returns an error has not changed the version
VersionMonotonic ==
    [][/\ \A id \in DOMAIN concerts :
            concerts'[id].version \in {concerts[id].version, concerts[id].version + 1}
       /\ \A p \in AllBookers :
            (bk[p].pc # "done" /\ bk'[p].pc = "done") =>
                LET id == bk[p].req.concertID
                IN  IF bk'[p].result = "OK"
                    THEN concerts'[id].version = concerts[id].version + 1
                    ELSE concerts' = concerts
       /\ \A q \in Cancellers :
            (cn[q].pc # "done" /\ cn'[q].pc = "done") =>
                /\ concerts' = concerts
                /\ (cn'[q].result = "OK") <=> (cn[q].pc = "commit")
       /\ \A u \in Updaters :
            (up[u].pc # "done" /\ up'[u].pc = "done" /\ up'[u].op = "UpdateConcert") =>
                IF up'[u].result = "OK"
                THEN concerts'[up'[u].id].version = concerts[up'[u].id].version + 1
                ELSE concerts' = concerts]_vars

\* C24: a booking is stored with status Confirmed; the status of a stored
\* booking changes only from Confirmed to Cancelled; no stored booking is
\* Pending and none is removed
StatusLifecycle ==
    [][/\ Len(bookings') >= Len(bookings)
       /\ \A id \in 1..Len(bookings') :
            /\ bookings'[id].status \in {BookingStatusConfirmed, BookingStatusCancelled}
            /\ id > Len(bookings) => bookings'[id].status = BookingStatusConfirmed
            /\ (id <= Len(bookings) /\ bookings'[id].status # bookings[id].status)
                  => /\ bookings[id].status = BookingStatusConfirmed
                     /\ bookings'[id].status = BookingStatusCancelled]_vars

\* the booking made by a BookTickets call has been cancelled
BookedThenCancelled ==
    /\ bk[1].pc = "done"
    /\ bk[1].result = "OK"
    /\ bookings[bk[1].id].status = BookingStatusCancelled

\* C25: the step in which a BookTickets call returns a booking stores that
\* booking with status Confirmed and the concert id, user id and ticketCount of
\* the request, lowers the concert's available by ticketCount and adds 1 to its
\* version
EffectOfBooking ==
    [][\A p \in Bookers :
         (bk[p].pc # "done" /\ bk'[p].pc = "done" /\ bk'[p].result = "OK") =>
            LET req == bk[p].req
                c   == concerts[req.concertID]
            IN  /\ bk'[p].id = Len(bookings) + 1
                /\ bookings' = Append(bookings,
                                      [concertID |-> req.concertID, userID |-> req.userID,
                                       ticketCount |-> req.ticketCount,
                                       status |-> BookingStatusConfirmed])
                /\ concerts' = [concerts EXCEPT ![req.concertID] =
                                  [c EXCEPT !.available = c.available - req.ticketCount,
                                            !.version = c.version + 1]]]_vars

\* a BookTickets call for more than one ticket has returned a booking
BookingReturned ==
    \E p \in Bookers :
        /\ bk[p].pc = "done"
        /\ bk[p].result = "OK"
        /\ bk[p].req.ticketCount > 1

\* C26: a step of a BookTickets or CancelBooking call that changes a concert row
\* is the commit of a transaction that has held the lock on that row since it
\* read it, and the same commit writes the booking
LockDiscipline ==
    [][\A id \in DOMAIN concerts :
         (concerts'[id] # concerts[id] /\ (bk' # bk \/ cn' # cn)) =>
            /\ lock[id] # 0
            /\ bk'[lock[id]] # bk[lock[id]]
            /\ bookings' # bookings]_vars

\* the concert a step of BookTickets call p works on
BookerConcert(p) == IF bk[p].pc = "idle" THEN bk'[p].req.concertID ELSE bk[p].req.concertID

\* the concert a step of CancelBooking call q works on: that of the booking it
\* was asked to cancel
CancellerConcert(q) == bookings[cn'[q].bookingID].concertID

\* a step touches, of the concert rows and the bookings, only those of concert id
TouchesOnly(id) ==
    /\ \A i \in DOMAIN concerts \ {id} : concerts'[i] = concerts[i]
    /\ Len(bookings') >= Len(bookings)
    /\ \A n \in 1..Len(bookings') :
         IF n <= Len(bookings)
         THEN bookings[n].concertID # id => bookings'[n] = bookings[n]
         ELSE bookings'[n].concertID = id

\* C27: a step of a BookTickets or CancelBooking call on one concert changes no
\* other concert's row and no other concert's bookings; and when the calls
\* running concurrently with a call all work on other concerts, the call meets
\* no version conflict: it is not retried and returns neither VersionConflict
\* nor Exhausted
Independence ==
    [][/\ \A p \in Bookers : bk'[p] # bk[p] => TouchesOnly(BookerConcert(p))
       /\ \A q \in Cancellers : cn'[q] # cn[q] =>
            IF cn'[q].bookingID \in 1..Len(bookings)
            THEN TouchesOnly(CancellerConcert(q))
            ELSE concerts' = concerts /\ bookings' = bookings
       /\ \A p \in Bookers :
            /\ bk'[p].attempt = 0
            /\ bk'[p].result \notin {ErrOptimisticLockFailed, "Exhausted"}
       /\ \A q \in Cancellers : cn'[q].result # ErrOptimisticLockFailed]_vars

\* a booking on one concert has committed while a transaction on the other
\* concert is open, and a cancellation has returned its tickets
ParallelCalls ==
    \E p, o \in Bookers :
        /\ bk[p].pc = "done" /\ bk[p].result = "OK"
        /\ bk[o].pc = "inserted" /\ bk[o].req.concertID # bk[p].req.concertID
        /\ \E q \in Cancellers : cn[q].pc = "done" /\ cn[q].result = "OK"

\* C28: a version-guarded update (Update, UpdateTicketCount) of a stored concert
\* with expected version v returns VersionConflict exactly when the stored
\* version it meets differs from v; it succeeds only on a row whose version is
\* v, which it raises by one; an update that fails leaves the row unchanged;
\* and of the updates carrying the same expected version at most one succeeds
ConditionalUpdate ==
    [][/\ \A u \in Updaters : up'[u] # up[u] =>
            LET id == up'[u].arg.id
                v  == up'[u].arg.version
            IN  /\ (up'[u].pc = "done" /\ id \in DOMAIN concerts) =>
                      (up'[u].result = ErrOptimisticLockFailed <=> concerts[id].version # v)
                /\ up'[u].result = "OK" =>
                      concerts[id].version = v /\ concerts'[id].version = v + 1
                /\ up'[u].result # "OK" => concerts' = concerts
       /\ \A u, o \in Updaters :
            (/\ u # o
             /\ up'[u].result = "OK" /\ up'[o].result = "OK"
             /\ up'[u].arg.id = up'[o].arg.id) => up'[u].arg.version # up'[o].arg.version]_vars

\* two updates carried the same expected version: one succeeded, the other
\* returned VersionConflict
ConflictingUpdates ==
    \E u, o \in Updaters :
        /\ up[u].pc = "done" /\ up[u].result = "OK"
        /\ up[o].pc = "done" /\ up[o].result = ErrOptimisticLockFailed
        /\ up[o].arg.id = up[u].arg.id /\ up[o].arg.version = up[u].arg.version
        /\ up[o].op = "UpdateTicketCount"

NoSpuriousConflict ==
    [][/\ \A p \in AllBookers :
            LET id == bk[p].req.concertID
                conflict == \/ bk'[p].attempt = bk[p].attempt + 1
                            \/ bk'[p].result = "Exhausted"
            IN  /\ (bk[p].pc = "loop" /\ bk'[p].pc = "create") =>
                       bk'[p].seen = concerts[id].version
                /\ (bk[p].pc = "create" /\ bk'[p] # bk[p]) =>
                       (conflict => concerts[id].version > bk[p].seen)
                /\ (bk[p].pc # "create" /\ bk'[p] # bk[p]) => ~conflict
       /\ \A id \in DOMAIN concerts :
            concerts'[id].version # concerts[id].version =>
                /\ concerts'[id].version = concerts[id].version + 1
                /\ \/ \E o \in AllBookers : bk[o].pc = "inserted" /\ bk'[o].result = "OK"
                   \/ \E q \in Cancellers : cn[q].pc = "read" /\ cn'[q].pc = "commit"]_vars

\* an attempt met a version conflict, the call read the version again and the
\* next attempt passed the version check of its transaction
RetryPassed ==
    \E p \in AllBookers :
        /\ bk[p].pc = "intx"
        /\ bk[p].attempt >= 1
        /\ bk[p].lastErr = ErrOptimisticLockFailed
        /\ bk[p].seen = concerts[bk[p].req.concertID].version

\* C33: a successful UpdateConcert over gRPC leaves available as it is stored at
\* the moment of the update
GrpcPreservesAvailable ==
    [][\A u \in Updaters :
         (/\ up[u].pc = "preserved"
          /\ up'[u].pc = "done"
          /\ up'[u].result = "OK") =>
             concerts'[up[u].arg.id].available = concerts[up[u].arg.id].available]_vars

\* the bookings inserted by the BookTickets call of scenario caller p, whose user
\* no other caller has
InsertedBy(p) == {n \in 1..Len(bookings) : bookings[n].userID = ScenarioRequest(p).userID}

\* C34: at every moment a BookTickets call has inserted one booking if it has
\* returned success and none otherwise: none while it runs or retries, none
\* when it returns an error, the exhausted-retries error included
OneBookingPerCall ==
    \A p \in ScenarioBookers :
        Cardinality(InsertedBy(p)) =
            IF bk[p].pc = "done" /\ bk[p].result = "OK" THEN 1 ELSE 0

\* one call returned after exhausting its retries, with no booking of its own,
\* and the others each with the one booking they inserted
ExhaustedWithoutBooking ==
    \E p \in ScenarioBookers :
        /\ bk[p].pc = "done" /\ bk[p].result = "Exhausted" /\ InsertedBy(p) = {}
        /\ \A r \in ScenarioBookers \ {p} :
             bk[r].pc = "done" /\ bk[r].result = "OK" /\ InsertedBy(r) = {bk[r].id}

\* a step in which call p sleeps: it records the duration of its sleep
Slept(p) == bk'[p].slept # bk[p].slept /\ bk'[p].slept # 0

\* C35: a BookTickets call sleeps only in the step in which its attempt with
\* index k fails with a version conflict, for (k + 1) * 10 ms, and after the
\* sleep it starts the next attempt
LinearBackoff ==
    [][\A p \in ScenarioBookers :
         Slept(p) =>
            /\ bk[p].pc = "create"
            /\ concerts[bk[p].req.concertID].version # bk[p].seen
            /\ bk'[p].slept = (bk[p].attempt + 1) * 10
            /\ bk'[p].pc = "loop"
            /\ bk'[p].attempt = bk[p].attempt + 1]_vars

\* C36: the map holds one limiter per client IP seen and never replaces it, so
\* all requests of an IP use the same limiter; a request is answered 429, and
\* not passed on, exactly when the limiter of its IP has no token, and a request
\* that passes takes one token from that limiter and from no other
PerClientRateLimit ==
    [][/\ \A ip \in DOMAIN limiters : ip \in DOMAIN limiters' /\ limiters'[ip] = limiters[ip]
       /\ Len(buckets') = Cardinality(DOMAIN limiters')
       /\ \A i, j \in DOMAIN limiters' : i # j => limiters'[i] # limiters'[j]
       /\ \A r \in Requests :
            /\ rq'[r].pc # "idle" => rq'[r].limiter = limiters'[rq'[r].ip]
            /\ (rq[r].pc = "loaded" /\ rq'[r].pc = "done") =>
                 LET b == limiters[rq[r].ip]
                 IN  /\ rq'[r].status = 429 <=> buckets[b] = 0
                     /\ rq'[r].status = 200 <=> buckets[b] >= 1
                     /\ buckets'[b] = IF rq'[r].status = 200 THEN buckets[b] - 1
                                      ELSE buckets[b]
                     /\ \A o \in 1..Len(buckets) : o # b => buckets'[o] = buckets[o]]_vars

\* the requests of one IP emptied its limiter and its next request was
\* answered 429, while a request of the other IP passed
LimitedAndPassed ==
    \E r, t \in Requests :
        /\ rq[r].pc = "done" /\ rq[r].status = 429
        /\ Cardinality({o \in Requests : rq[o].status = 200 /\ rq[o].ip = rq[r].ip}) = Rps
        /\ rq[t].pc = "done" /\ rq[t].status = 200 /\ rq[t].ip # rq[r].ip

\* C37: a list call queries with limit = pageSize, where pageSize < 1 or > 100
\* is replaced by 20, and offset = (page - 1) * pageSize, where page < 1 is
\* replaced by 1; it changes no concert and no booking
PaginationNormalised ==
    [][ls' # ls =>
         LET page == IF ls'.page < 1 THEN 1 ELSE ls'.page
             pageSize == IF ls'.pageSize < 1 \/ ls'.pageSize > 100 THEN 20 ELSE ls'.pageSize
         IN  /\ ls'.op \in {"ListConcerts", "GetUserBookings"}
             /\ ls'.limit = pageSize
             /\ ls'.offset = (page - 1) * pageSize
             /\ concerts' = concerts
             /\ bookings' = bookings]_vars

\* a call with a page size above 100 for a page after the first ran its query
PageSizeReplaced ==
    /\ ls.op = "GetUserBookings"
    /\ ls.pageSize > 100 /\ ls.page > 1
    /\ ls.limit = 20 /\ ls.offset = (ls.page - 1) * 20

\* C38: in the query of ListConcerts the filter conditions use the placeholders
\* $1..$n, n the number of filter arguments, placeholder $k stands for the k-th
\* argument, and LIMIT and OFFSET use $n+1 and $n+2
FilterPlaceholders ==
    ls.op = "ListConcerts" =>
        LET n == Len(ls.args)
            used == {ls.conditions[c].placeholder : c \in DOMAIN ls.conditions} \ {0}
        IN  /\ used = 1..n
            /\ \A c \in DOMAIN ls.conditions :
                 ls.conditions[c].placeholder # 0 =>
                    /\ ls.conditions[c].placeholder \in 1..n
                    /\ ls.args[ls.conditions[c].placeholder].filter = ls.conditions[c].column
            /\ ls.limitArg = n + 1 /\ ls.offsetArg = n + 2
            /\ ls.limitArg \notin used /\ ls.offsetArg \notin used

====
